---- MODULE Spec2Model ----
(***************************************************************************)
(* MongoDBClient (src/daos/mongodb_client.py): a connection wrapper with   *)
(* a soft-delete aware CRUD surface over one MongoDB database.             *)
(*                                                                         *)
(* A document and a query are mappings from field names to values, here    *)
(* functions whose domain is a set of strings.  A collection is the        *)
(* sequence of its documents in natural (insertion) order.  A connection   *)
(* handle (a MongoClient) is an index into `handles`; None is 0.           *)
(***************************************************************************)
EXTENDS Integers, Sequences, FiniteSets, TLC

\* ------------------------------------------------------------------ bounds
\* Documents ever inserted (the generated _id values are 1..MaxDocs).
MaxDocs == 2
\* Connection handles ever opened by the sequential specifications.
MaxHandles == 2
\* Documents of the paginated collection, and the largest limit and skip tried on it.
NPage == 10
MaxLimit == 5
MaxSkip == 4
\* Threads calling _connect at the same time.
NThreads == 2

\* Python's None, for self.client and self.db.
None == 0

Collections == {"users"}
Names == {"a", "b"}
Vals == {1}

VARIABLES
    client,    \* self.client: None or the index of a handle
    db,        \* self.db: None or the index of the handle the Database hangs off
    handles,   \* every MongoClient opened so far: [open, ping]
    store,     \* the database: collection name -> sequence of documents
    nextId,    \* the next generated _id
    inScope,   \* the caller is inside `with MongoDBClient(...) as c:`
    last,      \* the last call: its arguments, what it returned or raised, the state before it
    pc,        \* per thread: its position inside _connect (concurrent specification)
    tmp,       \* per thread: the MongoClient it created and has not yet stored
    meta       \* the database's catalogue: per collection, whether it exists and its validator

vars == <<client, db, handles, store, nextId, inScope, last, pc, tmp, meta>>

Threads == 1..NThreads

\* --------------------------------------------------------------- documents
\* d[f] = v on a Python dict: the key is added or overwritten.
SetField(d, f, v) == [g \in (DOMAIN d) \cup {f} |-> IF g = f THEN v ELSE d[g]]

\* {'$set': upd} applied to one document: the named fields and no other.
SetFields(d, upd) == [g \in (DOMAIN d) \cup (DOMAIN upd) |-> IF g \in DOMAIN upd THEN upd[g] ELSE d[g]]

\* An equality query: every field of the query is in the document with that value.
Matches(d, q) == \A f \in DOMAIN q : f \in DOMAIN d /\ d[f] = q[f]

\* The documents a caller passes to insert_one / insert_many: a natural key
\* `name`, a payload `val`, and possibly an is_deleted of the caller's own.
UserDocs ==
    {[name |-> n, val |-> v] : n \in Names, v \in Vals}
    \cup {[name |-> n, val |-> v, is_deleted |-> b] : n \in Names, v \in Vals, b \in BOOLEAN}

\* The query mappings a caller passes.
Queries ==
    {<<>>}
    \cup {[f \in {"_id"} |-> i] : i \in 1..MaxDocs}
    \cup {[f \in {"name"} |-> n] : n \in Names}
    \cup {[f \in {"is_deleted"} |-> TRUE]}

\* ------------------------------------------------- the driver's primitives
\* Collection.find(query): the matching documents in natural order.
coll_find(docs, q) == SelectSeq(docs, LAMBDA d : Matches(d, q))

\* Collection.find_one(query): the first match, or None (the empty sequence).
coll_find_one(docs, q) ==
    LET m == coll_find(docs, q) IN IF m = <<>> THEN <<>> ELSE <<m[1]>>

\* The position of the first document matching q, 0 when there is none.
FirstMatch(docs, q) ==
    IF \E i \in 1..Len(docs) : Matches(docs[i], q)
    THEN CHOOSE i \in 1..Len(docs) :
            /\ Matches(docs[i], q)
            /\ \A j \in 1..(i - 1) : ~Matches(docs[j], q)
    ELSE 0

\* Collection.update_one(query, {'$set': upd}): the first match is updated.
coll_update_one(docs, q, upd) ==
    LET i == FirstMatch(docs, q) IN
    IF i = 0 THEN [docs |-> docs, count |-> 0]
    ELSE [docs |-> [docs EXCEPT ![i] = SetFields(docs[i], upd)],
          count |-> IF SetFields(docs[i], upd) = docs[i] THEN 0 ELSE 1]

\* Collection.delete_one(query): the first match is removed.
coll_delete_one(docs, q) ==
    LET i == FirstMatch(docs, q) IN
    IF i = 0 THEN [docs |-> docs, count |-> 0]
    ELSE [docs |-> SubSeq(docs, 1, i - 1) \o SubSeq(docs, i + 1, Len(docs)), count |-> 1]

\* Collection.insert_one(data): the driver adds the generated _id to the
\* caller's dict and stores it.
coll_insert_one(docs, data, id) ==
    LET d == SetField(data, "_id", id) IN [docs |-> Append(docs, d), data |-> d, id |-> id]

\* ------------------------------------------------------- MongoDBClient
\* _connect: nothing when self.client is set; otherwise a new MongoClient is
\* stored in self.client, self.db is taken from it, and the ping runs.  A
\* failed ping is logged and re-raised; the fields stay as assigned.
connect_always(cs, ok) ==
    LET h == Len(cs.handles) + 1 IN
    [cs |-> [client |-> h, db |-> h,
             handles |-> Append(cs.handles, [open |-> TRUE, ping |-> IF ok THEN "ok" ELSE "failed"])],
     raised |-> IF ok THEN "" ELSE "ConnectionFailure"]

_connect(cs, ok) ==
    IF cs.client # None
    THEN [cs |-> cs, raised |-> ""]
    ELSE LET h == Len(cs.handles) + 1 IN
         [cs |-> [client |-> h, db |-> h,
                  handles |-> Append(cs.handles, [open |-> TRUE, ping |-> IF ok THEN "ok" ELSE "failed"])],
          raised |-> IF ok THEN "" ELSE "ConnectionFailure"]

close_keep_db(cs) ==
    IF cs.client # None
    THEN [client |-> None, db |-> cs.db,
          handles |-> [cs.handles EXCEPT ![cs.client].open = FALSE]]
    ELSE cs

\* close: when self.client is set, the MongoClient is closed and both fields
\* are set to None; otherwise nothing.
close(cs) ==
    IF cs.client # None
    THEN [client |-> None, db |-> None,
          handles |-> [cs.handles EXCEPT ![cs.client].open = FALSE]]
    ELSE cs

exit_unless_error(cs, exc) == IF exc THEN cs ELSE close(cs)

\* __exit__(exc_type, exc_val, exc_tb): close(), whatever the exception.
\* It returns None, so an exception of the body propagates.
__exit__(cs, exc) == close(cs)

insert_one_keep_flag(docs, data, id) ==
    coll_insert_one(docs, IF "is_deleted" \in DOMAIN data THEN data ELSE SetField(data, "is_deleted", FALSE), id)

\* insert_one: data["is_deleted"] = False, then the driver's insert_one.
insert_one(docs, data, id) ==
    coll_insert_one(docs, SetField(data, "is_deleted", FALSE), id)

find_one_no_filter(docs, query, include_deleted) ==
    [query |-> query, result |-> coll_find_one(docs, query)]

\* find_one: unless include_deleted, query["is_deleted"] = False on the
\* caller's mapping; then the driver's find_one.
find_one(docs, query, include_deleted) ==
    LET q == IF ~include_deleted THEN SetField(query, "is_deleted", FALSE) ELSE query IN
    [query |-> q, result |-> coll_find_one(docs, q)]

delete_one_always_soft(docs, query, soft_delete) ==
    coll_update_one(docs, query, [is_deleted |-> TRUE])

delete_one_always_hard(docs, query, soft_delete) ==
    coll_delete_one(docs, query)

update_one_live(docs, query, update_data) ==
    coll_update_one(docs, SetField(query, "is_deleted", FALSE), update_data)

\* update_one: the driver's update_one(query, {'$set': update_data}) with the
\* caller's query as it is.
update_one(docs, query, update_data) == coll_update_one(docs, query, update_data)

\* delete_one: soft, update_one(query, {'$set': {"is_deleted": True}});
\* hard, the driver's delete_one(query).
delete_one(docs, query, soft_delete) ==
    IF soft_delete
    THEN coll_update_one(docs, query, [is_deleted |-> TRUE])
    ELSE coll_delete_one(docs, query)

\* The sort arguments a caller passes: None, or a list of (field, direction).
Sorts == {<<>>, <<[field |-> "val", dir |-> 1]>>, <<[field |-> "val", dir |-> -1]>>}

\* a comes strictly before b in the order `sort` asks for.
SortsBefore(a, b, sort) ==
    \E k \in 1..Len(sort) :
        /\ \A j \in 1..(k - 1) : a[sort[j].field] = b[sort[j].field]
        /\ IF sort[k].dir = 1
           THEN a[sort[k].field] < b[sort[k].field]
           ELSE a[sort[k].field] > b[sort[k].field]

\* Cursor.sort(sort): the documents ordered by the sort keys; documents with
\* equal keys stay in natural order.
RECURSIVE cursor_sort(_, _)
cursor_sort(docs, sort) ==
    IF docs = <<>> THEN <<>>
    ELSE LET n == Len(docs)
             init == cursor_sort(SubSeq(docs, 1, n - 1), sort)
             x == docs[n]
             \* x goes behind every document that does not come after it
             keep == Cardinality({i \in 1..Len(init) :
                        \A j \in 1..i : ~SortsBefore(x, init[j], sort)})
         IN SubSeq(init, 1, keep) \o <<x>> \o SubSeq(init, keep + 1, Len(init))

\* Cursor.skip(n) and Cursor.limit(n).
cursor_skip(docs, n) == SubSeq(docs, n + 1, Len(docs))
cursor_limit(docs, n) == SubSeq(docs, 1, IF n < Len(docs) THEN n ELSE Len(docs))

find_many_limit_first(docs, query, include_deleted, sort, limit, skip) ==
    LET q == IF ~include_deleted THEN SetField(query, "is_deleted", FALSE) ELSE query
        c0 == coll_find(docs, q)
        c1 == IF sort # <<>> THEN cursor_sort(c0, sort) ELSE c0
        c2 == IF limit > 0 THEN cursor_limit(c1, limit) ELSE c1
        c3 == IF skip > 0 THEN cursor_skip(c2, skip) ELSE c2
    IN [query |-> q, result |-> c3]

\* find_many: the same injection as find_one; then find(query), sort when a
\* sort is given, skip when skip > 0, limit when limit > 0.  The cursor
\* applies them in that order whatever the order of the calls.
find_many(docs, query, include_deleted, sort, limit, skip) ==
    LET q == IF ~include_deleted THEN SetField(query, "is_deleted", FALSE) ELSE query
        c0 == coll_find(docs, q)
        c1 == IF sort # <<>> THEN cursor_sort(c0, sort) ELSE c0
        c2 == IF skip > 0 THEN cursor_skip(c1, skip) ELSE c1
        c3 == IF limit > 0 THEN cursor_limit(c2, limit) ELSE c2
    IN [query |-> q, result |-> c3]

\* insert_many: is_deleted = False on every document of the list, then the
\* driver's insert_many, which stores them in order with generated ids.
RECURSIVE insert_many(_, _, _)
insert_many(docs, data_list, id) ==
    IF data_list = <<>>
    THEN [docs |-> docs, data |-> <<>>, ids |-> <<>>]
    ELSE LET one == coll_insert_one(docs, SetField(Head(data_list), "is_deleted", FALSE), id)
             rest == insert_many(one.docs, Tail(data_list), id + 1)
         IN [docs |-> rest.docs, data |-> <<one.data>> \o rest.data, ids |-> <<id>> \o rest.ids]

\* Collection.update_many(query, {'$set': upd}).
coll_update_many(docs, q, upd) ==
    [docs |-> [i \in 1..Len(docs) |-> IF Matches(docs[i], q) THEN SetFields(docs[i], upd) ELSE docs[i]],
     count |-> Cardinality({i \in 1..Len(docs) : Matches(docs[i], q) /\ SetFields(docs[i], upd) # docs[i]})]

\* Collection.delete_many(query).
coll_delete_many(docs, q) ==
    [docs |-> SelectSeq(docs, LAMBDA d : ~Matches(d, q)),
     count |-> Len(coll_find(docs, q))]

delete_many_first_only(docs, query, soft_delete) ==
    IF soft_delete
    THEN coll_update_one(docs, query, [is_deleted |-> TRUE])
    ELSE coll_delete_one(docs, query)

\* delete_many: soft, update_many(query, {'$set': {"is_deleted": True}});
\* hard, the driver's delete_many(query).
delete_many(docs, query, soft_delete) ==
    IF soft_delete
    THEN coll_update_many(docs, query, [is_deleted |-> TRUE])
    ELSE coll_delete_many(docs, query)

count_documents_live(docs, query) ==
    Len(coll_find(docs, SetField(query, "is_deleted", FALSE)))

\* count_documents: the driver's count_documents(query), the query as given.
count_documents(docs, query) == Len(coll_find(docs, query))

\* Collection.aggregate(pipeline): the stages in order.  A stage is a
\* mapping with one key, "$match" (a query) or "$limit" (a number).
RECURSIVE coll_aggregate(_, _)
coll_aggregate(docs, pipeline) ==
    IF pipeline = <<>> THEN docs
    ELSE LET stage == Head(pipeline)
             out == IF "$match" \in DOMAIN stage
                    THEN coll_find(docs, stage["$match"])
                    ELSE SubSeq(docs, 1, IF stage["$limit"] < Len(docs) THEN stage["$limit"] ELSE Len(docs))
         IN coll_aggregate(out, Tail(pipeline))

\* aggregate: list(collection.aggregate(pipeline)), the pipeline as given.
aggregate(docs, pipeline) == coll_aggregate(docs, pipeline)

\* The pipelines a caller passes.
Pipelines ==
    {<<>>}
    \cup {<<[f \in {"$match"} |-> q]>> : q \in Queries}
    \cup {<<[f \in {"$match"} |-> q], [f \in {"$limit"} |-> 1]>> : q \in {<<>>}}

\* self.db[collection_name]: TypeError when self.db is None, else the
\* collection of that name.
collection_no_check(dbref, st, c) == [raised |-> "", docs |-> st[c]]

collection(dbref, st, c) ==
    IF dbref = None
    THEN [raised |-> "TypeError", docs |-> <<>>]
    ELSE [raised |-> "", docs |-> st[c]]

\* ---------------------------------------------------------------- state
\* The collections the catalogue is followed for, and the catalogue of an
\* empty database: no collection exists, none has a validator.
MetaCollections == Collections \cup {"plans"}
NoMeta == [c \in MetaCollections |-> [exists |-> FALSE, validator |-> "", level |-> ""]]

Conn == [client |-> client, db |-> db, handles |-> handles]

\* The state a call starts from.
Pre == [store |-> store, client |-> client, db |-> db, handles |-> handles, meta |-> meta]

NoPre ==
    [store |-> [c \in Collections |-> <<>>], client |-> None, db |-> None, handles |-> <<>>,
     meta |-> NoMeta]

\* The record of a call, before its arguments and outcome are filled in.
Call(name) ==
    [op |-> name, coll |-> "", query |-> <<>>, queryAfter |-> <<>>,
     incl |-> FALSE, soft |-> FALSE, exc |-> FALSE,
     data |-> <<>>, dataAfter |-> <<>>, result |-> <<>>, ids |-> <<>>,
     sort |-> <<>>, limit |-> 0, skip |-> 0, pipeline |-> <<>>,
     update |-> <<>>, schema |-> "",
     count |-> 0, raised |-> "", pre |-> Pre]

\* No call is in progress: the caller has taken the last call's outcome.
Idle == [Call("") EXCEPT !.pre = NoPre]

SetConn(cs) ==
    /\ client' = cs.client
    /\ db' = cs.db
    /\ handles' = cs.handles

\* After __init__: the fields are set to None and _connect has run and not
\* raised (a constructor that raises leaves no object).  The database is empty.
Init ==
    /\ client = 1
    /\ db = 1
    /\ handles = <<[open |-> TRUE, ping |-> "ok"]>>
    /\ store = [c \in Collections |-> <<>>]
    /\ nextId = 1
    /\ inScope = FALSE
    /\ meta = NoMeta
    /\ last = Idle
    /\ pc = [t \in Threads |-> "idle"]
    /\ tmp = [t \in Threads |-> None]

\* The caller takes the outcome of the call and goes on.
Return ==
    /\ last # Idle
    /\ last' = Idle
    /\ UNCHANGED <<client, db, handles, store, nextId, inScope, pc, tmp, meta>>

\* --------------------------------------------------------------- lifecycle
\* A call of _connect from outside a scope.
Connect ==
    /\ last = Idle
    /\ \E ok \in BOOLEAN :
        /\ client # None \/ Len(handles) < MaxHandles
        /\ LET r == _connect(Conn, ok) IN
            /\ SetConn(r.cs)
            /\ last' = [Call("_connect") EXCEPT !.raised = r.raised]
        /\ UNCHANGED <<store, nextId, inScope, pc, tmp, meta>>

\* close() called by the owner.
Close ==
    /\ last = Idle
    /\ SetConn(close(Conn))
    /\ last' = Call("close")
    /\ UNCHANGED <<store, nextId, inScope, pc, tmp, meta>>

\* `with client:` -- __enter__ runs _connect; when it raises, the body does
\* not run and __exit__ is not called.
Enter ==
    /\ last = Idle
    /\ \E ok \in BOOLEAN :
        /\ ~inScope
        /\ client # None \/ Len(handles) < MaxHandles
        /\ LET r == _connect(Conn, ok) IN
            /\ SetConn(r.cs)
            /\ inScope' = (r.raised = "")
            /\ last' = [Call("__enter__") EXCEPT !.raised = r.raised]
        /\ UNCHANGED <<store, nextId, pc, tmp, meta>>

\* The with-block is left, normally (exc = FALSE) or by an exception.
Exit ==
    /\ last = Idle
    /\ \E exc \in BOOLEAN :
        /\ inScope
        /\ SetConn(__exit__(Conn, exc))
        /\ inScope' = FALSE
        /\ last' = [Call("__exit__") EXCEPT !.exc = exc]
        /\ UNCHANGED <<store, nextId, pc, tmp, meta>>

\* -------------------------------------------------------------------- CRUD
\* Every method mutates its argument first where it does, then resolves
\* self.db[collection_name], then calls the driver.
InsertOne ==
    /\ last = Idle
    /\ \E c \in Collections, data \in UserDocs :
        /\ nextId <= MaxDocs
        /\ LET col == collection(db, store, c)
               r == insert_one(col.docs, data, nextId)
           IN IF col.raised # ""
              THEN /\ last' = [Call("insert_one") EXCEPT !.coll = c, !.data = <<data>>,
                                  !.dataAfter = <<SetField(data, "is_deleted", FALSE)>>,
                                  !.raised = col.raised]
                   /\ UNCHANGED <<store, nextId, meta>>
              ELSE /\ store' = [store EXCEPT ![c] = r.docs]
                   /\ nextId' = nextId + 1
                   /\ meta' = [meta EXCEPT ![c].exists = TRUE]
                   /\ last' = [Call("insert_one") EXCEPT !.coll = c, !.data = <<data>>,
                                  !.dataAfter = <<r.data>>, !.ids = <<r.id>>]
        /\ UNCHANGED <<client, db, handles, inScope, pc, tmp>>

\* The lists a caller passes to insert_many (as long as ids are left).
DataLists == UNION {[1..n -> UserDocs] : n \in 1..(MaxDocs + 1 - nextId)}

InsertMany ==
    /\ last = Idle
    /\ \E c \in Collections, data_list \in DataLists :
        /\ LET col == collection(db, store, c)
               r == insert_many(col.docs, data_list, nextId)
           IN IF col.raised # ""
              THEN /\ last' = [Call("insert_many") EXCEPT !.coll = c, !.data = data_list,
                                  !.dataAfter = [k \in 1..Len(data_list) |->
                                                    SetField(data_list[k], "is_deleted", FALSE)],
                                  !.raised = col.raised]
                   /\ UNCHANGED <<store, nextId, meta>>
              ELSE /\ store' = [store EXCEPT ![c] = r.docs]
                   /\ nextId' = nextId + Len(data_list)
                   /\ meta' = [meta EXCEPT ![c].exists = TRUE]
                   /\ last' = [Call("insert_many") EXCEPT !.coll = c, !.data = data_list,
                                  !.dataAfter = r.data, !.ids = r.ids]
        /\ UNCHANGED <<client, db, handles, inScope, pc, tmp>>

FindOne ==
    /\ last = Idle
    /\ \E c \in Collections, query \in Queries, incl \in BOOLEAN :
        /\ LET col == collection(db, store, c)
               r == find_one(col.docs, query, incl)
           IN last' = [Call("find_one") EXCEPT !.coll = c, !.query = query, !.incl = incl,
                          !.queryAfter = r.query,
                          !.result = IF col.raised # "" THEN <<>> ELSE r.result,
                          !.raised = col.raised]
        /\ UNCHANGED <<client, db, handles, store, nextId, inScope, pc, tmp, meta>>

DeleteOne ==
    /\ last = Idle
    /\ \E c \in Collections, query \in Queries, soft \in BOOLEAN :
        /\ LET col == collection(db, store, c)
               r == delete_one(col.docs, query, soft)
           IN IF col.raised # ""
              THEN /\ last' = [Call("delete_one") EXCEPT !.coll = c, !.query = query,
                                  !.queryAfter = query, !.soft = soft, !.raised = col.raised]
                   /\ UNCHANGED store
              ELSE /\ store' = [store EXCEPT ![c] = r.docs]
                   /\ last' = [Call("delete_one") EXCEPT !.coll = c, !.query = query,
                                  !.queryAfter = query, !.soft = soft, !.count = r.count]
        /\ UNCHANGED <<client, db, handles, nextId, inScope, pc, tmp, meta>>

\* The field sets a caller passes to update_one.
Updates == {[f \in {"name"} |-> n] : n \in Names} \cup {[f \in {"is_deleted"} |-> FALSE]}

UpdateOne ==
    /\ last = Idle
    /\ \E c \in Collections, query \in Queries, update_data \in Updates :
        /\ LET col == collection(db, store, c)
               r == update_one(col.docs, query, update_data)
           IN IF col.raised # ""
              THEN /\ last' = [Call("update_one") EXCEPT !.coll = c, !.query = query,
                                  !.queryAfter = query, !.update = update_data,
                                  !.raised = col.raised]
                   /\ UNCHANGED store
              ELSE /\ store' = [store EXCEPT ![c] = r.docs]
                   /\ last' = [Call("update_one") EXCEPT !.coll = c, !.query = query,
                                  !.queryAfter = query, !.update = update_data,
                                  !.count = r.count]
        /\ UNCHANGED <<client, db, handles, nextId, inScope, pc, tmp, meta>>

DeleteMany ==
    /\ last = Idle
    /\ \E c \in Collections, query \in Queries, soft \in BOOLEAN :
        /\ LET col == collection(db, store, c)
               r == delete_many(col.docs, query, soft)
           IN IF col.raised # ""
              THEN /\ last' = [Call("delete_many") EXCEPT !.coll = c, !.query = query,
                                  !.queryAfter = query, !.soft = soft, !.raised = col.raised]
                   /\ UNCHANGED store
              ELSE /\ store' = [store EXCEPT ![c] = r.docs]
                   /\ last' = [Call("delete_many") EXCEPT !.coll = c, !.query = query,
                                  !.queryAfter = query, !.soft = soft, !.count = r.count]
        /\ UNCHANGED <<client, db, handles, nextId, inScope, pc, tmp, meta>>

CountDocuments ==
    /\ last = Idle
    /\ \E c \in Collections, query \in Queries :
        /\ LET col == collection(db, store, c) IN
           last' = [Call("count_documents") EXCEPT !.coll = c, !.query = query,
                       !.queryAfter = query,
                       !.count = IF col.raised # "" THEN 0 ELSE count_documents(col.docs, query),
                       !.raised = col.raised]
        /\ UNCHANGED <<client, db, handles, store, nextId, inScope, pc, tmp, meta>>

Aggregate ==
    /\ last = Idle
    /\ \E c \in Collections, pipeline \in Pipelines :
        /\ LET col == collection(db, store, c) IN
           last' = [Call("aggregate") EXCEPT !.coll = c, !.pipeline = pipeline,
                       !.result = IF col.raised # "" THEN <<>> ELSE aggregate(col.docs, pipeline),
                       !.raised = col.raised]
        /\ UNCHANGED <<client, db, handles, store, nextId, inScope, pc, tmp, meta>>

Next ==
    \/ Return
    \/ Connect
    \/ Close
    \/ Enter
    \/ Exit
    \/ InsertOne
    \/ InsertMany
    \/ FindOne
    \/ UpdateOne
    \/ DeleteOne
    \/ DeleteMany
    \/ CountDocuments
    \/ Aggregate

Spec == Init /\ [][Next]_vars

\* ----------------------------------------------------------- construction
init_lazy(cs, ok) ==
    [cs |-> [client |-> None, db |-> None, handles |-> cs.handles], raised |-> ""]

\* __init__: self.client = None, self.db = None, then self._connect().
__init__(cs, ok) ==
    _connect([client |-> None, db |-> None, handles |-> cs.handles], ok)

\* The caller evaluates MongoDBClient(...): no object yet, nothing opened.
InitNew ==
    /\ client = None
    /\ db = None
    /\ handles = <<>>
    /\ store = [c \in Collections |-> <<>>]
    /\ nextId = 1
    /\ inScope = FALSE
    /\ meta = NoMeta
    /\ last = [Idle EXCEPT !.op = "new"]
    /\ pc = [t \in Threads |-> "idle"]
    /\ tmp = [t \in Threads |-> None]

\* __init__ runs to its end, or raises what _connect raises.
Construct ==
    /\ last.op = "new"
    /\ \E ok \in BOOLEAN :
        LET r == __init__(Conn, ok) IN
        /\ SetConn(r.cs)
        /\ last' = [Call("__init__") EXCEPT !.raised = r.raised]
    /\ UNCHANGED <<store, nextId, inScope, pc, tmp, meta>>

\* The constructor has returned an object (when it raises there is none to call).
Constructed == last.op # "new" /\ ~(last.op = "__init__" /\ last.raised # "")

NextNew ==
    \/ Construct
    \/ (Constructed /\ Next)

SpecNew == InitNew /\ [][NextNew]_vars

\* ------------------------------------------------------------ validation
\* The schema directory: the files found under it by name, and what
\* json.load returns for each.
SchemaDir == [f \in {"user.json", "plan.json"} |-> IF f = "user.json" THEN "user-schema" ELSE "plan-schema"]

\* The schema file names a caller passes.
SchemaNames == (DOMAIN SchemaDir) \cup {"missing.json"}

\* _load_validation_schema: the first file of that name under the schema
\* directory, loaded; FileNotFoundError when there is none.
_load_validation_schema(schema_filename) ==
    IF schema_filename \in DOMAIN SchemaDir
    THEN [raised |-> "", schema |-> SchemaDir[schema_filename]]
    ELSE [raised |-> "FileNotFoundError", schema |-> ""]

\* Database.create_collection(name): CollectionInvalid when it exists.
create_collection(m, c) ==
    IF m[c].exists
    THEN [meta |-> m, raised |-> "CollectionInvalid"]
    ELSE [meta |-> [m EXCEPT ![c].exists = TRUE], raised |-> ""]

\* Database.command({"collMod": c, "validator": v, "validationLevel": lvl}).
coll_mod(m, c, v, lvl) == [m EXCEPT ![c].validator = v, ![c].level = lvl]

ensure_validation_create_first(dbref, m, c, schema_filename) ==
    LET made == create_collection(m, c)
        ld == _load_validation_schema(schema_filename)
    IN IF dbref = None THEN [meta |-> m, raised |-> "AttributeError"]
       ELSE IF ld.raised # "" THEN [meta |-> made.meta, raised |-> ld.raised]
       ELSE [meta |-> coll_mod(made.meta, c, ld.schema, "strict"), raised |-> ""]

ensure_validation_no_except(dbref, m, c, schema_filename) ==
    LET ld == _load_validation_schema(schema_filename)
        made == create_collection(m, c)
    IN IF ld.raised # "" THEN [meta |-> m, raised |-> ld.raised]
       ELSE IF dbref = None THEN [meta |-> m, raised |-> "AttributeError"]
       ELSE IF made.raised # "" THEN [meta |-> m, raised |-> made.raised]
       ELSE [meta |-> coll_mod(made.meta, c, ld.schema, "strict"), raised |-> ""]

\* _ensure_validation: load the schema (it may raise); create the collection,
\* passing over CollectionInvalid; collMod with the schema as validator and
\* validationLevel "strict".  self.db being None raises AttributeError at
\* create_collection.
_ensure_validation(dbref, m, c, schema_filename) ==
    LET ld == _load_validation_schema(schema_filename)
        made == create_collection(m, c)
    IN IF ld.raised # "" THEN [meta |-> m, raised |-> ld.raised]
       ELSE IF dbref = None THEN [meta |-> m, raised |-> "AttributeError"]
       ELSE [meta |-> coll_mod(made.meta, c, ld.schema, "strict"), raised |-> ""]

EnsureValidation ==
    /\ last = Idle
    /\ \E c \in MetaCollections, schema_filename \in SchemaNames :
        LET r == _ensure_validation(db, meta, c, schema_filename) IN
        /\ meta' = r.meta
        /\ last' = [Call("_ensure_validation") EXCEPT !.coll = c, !.schema = schema_filename,
                        !.raised = r.raised]
    /\ UNCHANGED <<client, db, handles, store, nextId, inScope, pc, tmp>>

\* A constructed client on a database where each collection may exist
\* already (created by earlier writes), none with a validator.
InitVal ==
    /\ client = 1
    /\ db = 1
    /\ handles = <<[open |-> TRUE, ping |-> "ok"]>>
    /\ store = [c \in Collections |-> <<>>]
    /\ nextId = 1
    /\ inScope = FALSE
    /\ \E e \in [MetaCollections -> BOOLEAN] :
          meta = [c \in MetaCollections |-> [exists |-> e[c], validator |-> "", level |-> ""]]
    /\ last = Idle
    /\ pc = [t \in Threads |-> "idle"]
    /\ tmp = [t \in Threads |-> None]

NextVal ==
    \/ Return
    \/ EnsureValidation
    \/ Connect
    \/ Close
    \/ Enter
    \/ Exit

SpecVal == InitVal /\ [][NextVal]_vars

\* ------------------------------------------------------------ pagination
\* A collection of NPage documents for find_many: the values of `val` are a
\* permutation of 1..NPage (stride coprime to NPage) or repeat (modulus 4),
\* and every third document is soft-deleted or none is.
PageStrides == {1, 3, 7}
PageModuli == {0, 4}

PageDoc(i, stride, modulus, del) ==
    [_id |-> i, name |-> IF i % 2 = 0 THEN "a" ELSE "b",
     val |-> IF modulus = 0 THEN ((i * stride) % NPage) + 1 ELSE ((i * stride) % modulus) + 1,
     is_deleted |-> del /\ (i % 3 = 0)]

InitPage ==
    /\ client = 1
    /\ db = 1
    /\ handles = <<[open |-> TRUE, ping |-> "ok"]>>
    /\ \E stride \in PageStrides, modulus \in PageModuli, del \in BOOLEAN :
          store = [c \in Collections |-> [i \in 1..NPage |-> PageDoc(i, stride, modulus, del)]]
    /\ nextId = NPage + 1
    /\ inScope = FALSE
    /\ meta = [c \in MetaCollections |-> [exists |-> c \in Collections, validator |-> "", level |-> ""]]
    /\ last = Idle
    /\ pc = [t \in Threads |-> "idle"]
    /\ tmp = [t \in Threads |-> None]

PageQueries == {<<>>, [f \in {"name"} |-> "a"]}

FindMany ==
    /\ last = Idle
    /\ \E c \in Collections, query \in PageQueries, incl \in BOOLEAN,
          sort \in Sorts, limit \in 0..MaxLimit, skip \in 0..MaxSkip :
        /\ LET col == collection(db, store, c)
               r == find_many(col.docs, query, incl, sort, limit, skip)
           IN last' = [Call("find_many") EXCEPT !.coll = c, !.query = query, !.incl = incl,
                          !.sort = sort, !.limit = limit, !.skip = skip,
                          !.queryAfter = r.query,
                          !.result = IF col.raised # "" THEN <<>> ELSE r.result,
                          !.raised = col.raised]
        /\ UNCHANGED <<client, db, handles, store, nextId, inScope, pc, tmp, meta>>

NextPage ==
    \/ Return
    \/ FindMany
    \/ Close

SpecPage == InitPage /\ [][NextPage]_vars

\* ------------------------------------------------------------ concurrency
\* Threads calling _connect on one client, one statement at a time.  No lock
\* is taken in _connect.  The client is the one the constructor left, closed.
InitConc ==
    /\ client = None
    /\ db = None
    /\ handles = <<[open |-> FALSE, ping |-> "ok"]>>
    /\ store = [c \in Collections |-> <<>>]
    /\ nextId = 1
    /\ inScope = FALSE
    /\ meta = NoMeta
    /\ last = Idle
    /\ pc = [t \in Threads |-> "idle"]
    /\ tmp = [t \in Threads |-> None]

Goto(t, label) == pc' = [pc EXCEPT ![t] = label]

\* The thread calls _connect.
TCall(t) ==
    /\ pc[t] \in {"idle", "done", "raised"}
    /\ Goto(t, "l28")
    /\ UNCHANGED <<client, db, handles, store, nextId, inScope, last, tmp, meta>>

\* line 28: if not self.client
TCheck(t) ==
    /\ pc[t] = "l28"
    /\ Goto(t, IF client = None THEN "l31" ELSE "done")
    /\ UNCHANGED <<client, db, handles, store, nextId, inScope, last, tmp, meta>>

\* line 31, right-hand side: MongoClient(self.uri)
TOpen(t) ==
    /\ pc[t] = "l31"
    /\ handles' = Append(handles, [open |-> TRUE, ping |-> "none"])
    /\ tmp' = [tmp EXCEPT ![t] = Len(handles) + 1]
    /\ Goto(t, "l31s")
    /\ UNCHANGED <<client, db, store, nextId, inScope, last, meta>>

\* line 31, the assignment: self.client = <the new MongoClient>
TStore(t) ==
    /\ pc[t] = "l31s"
    /\ client' = tmp[t]
    /\ tmp' = [tmp EXCEPT ![t] = None]
    /\ Goto(t, "l32")
    /\ UNCHANGED <<db, handles, store, nextId, inScope, last, meta>>

\* line 32: self.db = self.client[self.db_name]
TSetDb(t) ==
    /\ pc[t] = "l32"
    /\ db' = client
    /\ Goto(t, "l33")
    /\ UNCHANGED <<client, handles, store, nextId, inScope, last, tmp, meta>>

\* line 33: self.client.admin.command('ping'); lines 35-37 when it fails
TPing(t) ==
    /\ pc[t] = "l33"
    /\ \E ok \in BOOLEAN :
        /\ handles' = [handles EXCEPT ![client].ping = IF ok THEN "ok" ELSE "failed"]
        /\ Goto(t, IF ok THEN "done" ELSE "raised")
    /\ UNCHANGED <<client, db, store, nextId, inScope, last, tmp, meta>>

NextConc ==
    \E t \in Threads :
        \/ TCall(t)
        \/ TCheck(t)
        \/ TOpen(t)
        \/ TStore(t)
        \/ TSetDb(t)
        \/ TPing(t)

SpecConc == InitConc /\ [][NextConc]_vars

\* ---------------------------------------------------------------- claims
\* The collection the last call worked on, before and after it.
PreDocs == last.pre.store[last.coll]
Docs == store[last.coll]

\* Whether document d carries the values query q asks for, deleted or not.
Carries(d, q) == \A f \in DOMAIN q : d[f] = q[f]

\* The documents of the collection that carried the last call's query before it.
PreMatching == SelectSeq(PreDocs, LAMBDA d : Carries(d, last.query))

\* A query on a document's key: the generated _id or the natural key `name`
\* alone, identifying one document of the collection.
OnKey ==
    /\ DOMAIN last.query = {"_id"} \/ DOMAIN last.query = {"name"}
    /\ Len(PreMatching) = 1

\* C1 -- soft-delete invisibility: after delete_one(soft_delete=True) with a
\* query on document D's key, find_one on that key returns not-found with
\* include_deleted=False, and D with is_deleted=True with include_deleted=True.
C1_SoftDeleteInvisible ==
    (last.op = "delete_one" /\ last.raised = "" /\ last.soft /\ OnKey) =>
        LET D == PreMatching[1] IN
        /\ find_one(Docs, last.query, FALSE).result = <<>>
        /\ find_one(Docs, last.query, TRUE).result =
              <<[f \in DOMAIN D |-> IF f = "is_deleted" THEN TRUE ELSE D[f]]>>
        /\ Len(Docs) = Len(PreDocs)

\* A live document, found by its natural key beside another document, has
\* been soft-deleted.
C1_Witness ==
    /\ last.op = "delete_one" /\ last.raised = "" /\ last.soft /\ OnKey
    /\ DOMAIN last.query = {"name"}
    /\ PreMatching[1].is_deleted = FALSE
    /\ Len(PreDocs) = 2
    /\ last.count = 1

\* C2 -- hard-delete finality: after delete_one(soft_delete=False) with a
\* query on a document's key, the document is physically absent and find_one
\* on that key returns not-found with include_deleted False and True alike.
C2_HardDeleteFinal ==
    (last.op = "delete_one" /\ last.raised = "" /\ ~last.soft /\ OnKey) =>
        LET D == PreMatching[1] IN
        /\ \A i \in 1..Len(Docs) : Docs[i]["_id"] # D["_id"]
        /\ Len(Docs) = Len(PreDocs) - 1
        /\ find_one(Docs, last.query, FALSE).result = <<>>
        /\ find_one(Docs, last.query, TRUE).result = <<>>
        /\ last.count = 1

\* A soft-deleted document has been removed for good, by its natural key.
C2_Witness ==
    /\ last.op = "delete_one" /\ last.raised = "" /\ ~last.soft /\ OnKey
    /\ DOMAIN last.query = {"name"}
    /\ PreMatching[1].is_deleted = TRUE
    /\ Len(PreDocs) = 2

\* What insert_one's caller expects back for document D: D, with the
\* generated _id, and is_deleted = False.
Inserted(D, id) ==
    [f \in (DOMAIN D) \cup {"_id", "is_deleted"} |->
        IF f = "_id" THEN id ELSE IF f = "is_deleted" THEN FALSE ELSE D[f]]

\* No live document of the collection carried this natural key before the call.
FreshKey(name) ==
    \A i \in 1..Len(PreDocs) : PreDocs[i].is_deleted \/ PreDocs[i].name # name

\* C3 -- insert-then-find: after insert_one(D), find_one with D's natural key
\* (a key no other live document carries) and include_deleted=False returns D
\* plus is_deleted=False; so does find_one with the returned _id.
C3_InsertThenFind ==
    (last.op = "insert_one" /\ last.raised = "") =>
        LET D == last.data[1]
            id == last.ids[1]
        IN
        /\ find_one(Docs, [f \in {"_id"} |-> id], FALSE).result = <<Inserted(D, id)>>
        /\ FreshKey(D.name) =>
              find_one(Docs, [f \in {"name"} |-> D.name], FALSE).result = <<Inserted(D, id)>>

\* A document is inserted under the natural key of a soft-deleted one, with
\* is_deleted=True supplied by the caller.
C3_Witness ==
    /\ last.op = "insert_one" /\ last.raised = ""
    /\ FreshKey(last.data[1].name)
    /\ \E i \in 1..Len(PreDocs) : PreDocs[i].name = last.data[1].name
    /\ "is_deleted" \in DOMAIN last.data[1] /\ last.data[1].is_deleted

\* C4 -- is_deleted is not user-settable at insert: every document passed to
\* insert_one or insert_many is stored with is_deleted = False, whatever the
\* caller supplied, its other fields as given.
C4_InsertForcesLive ==
    (last.op \in {"insert_one", "insert_many"} /\ last.raised = "") =>
        /\ Len(last.ids) = Len(last.data)
        /\ Len(Docs) = Len(PreDocs) + Len(last.data)
        /\ \A k \in 1..Len(last.data) :
              \E i \in 1..Len(Docs) :
                  /\ Docs[i]["_id"] = last.ids[k]
                  /\ Docs[i].is_deleted = FALSE
                  /\ \A f \in (DOMAIN last.data[k]) \ {"is_deleted"} : Docs[i][f] = last.data[k][f]

\* insert_many has stored two documents, one passed with is_deleted=True and
\* one without the field.
C4_Witness ==
    /\ last.op = "insert_many" /\ last.raised = ""
    /\ Len(last.data) = 2
    /\ "is_deleted" \in DOMAIN last.data[1] /\ last.data[1].is_deleted
    /\ "is_deleted" \notin DOMAIN last.data[2]

\* The collection holds one soft-deleted and one live document.
OneDeletedOneLive ==
    /\ Len(Docs) = 2
    /\ \E i, j \in 1..2 : Docs[i].is_deleted /\ ~Docs[j].is_deleted

\* C5 -- aggregate/count bypass: count_documents and aggregate add no
\* is_deleted filter.  With a query (a $match stage, or no stage) that does not
\* mention is_deleted they count / return every stored document carrying the
\* query's values, soft-deleted ones included: both documents of a collection
\* holding one soft-deleted and one live document.
C5_CountAggregateBypass ==
    /\ (last.op = "count_documents" /\ last.raised = "" /\ "is_deleted" \notin DOMAIN last.query) =>
          /\ last.count = Cardinality({i \in 1..Len(Docs) : Carries(Docs[i], last.query)})
          /\ (OneDeletedOneLive /\ last.query = <<>>) => last.count = 2
    /\ (last.op = "aggregate" /\ last.raised = "" /\ last.pipeline = <<>>) =>
          /\ last.result = Docs
          /\ OneDeletedOneLive => Len(last.result) = 2
    /\ (/\ last.op = "aggregate" /\ last.raised = ""
        /\ Len(last.pipeline) = 1
        /\ "$match" \in DOMAIN last.pipeline[1]
        /\ "is_deleted" \notin DOMAIN last.pipeline[1]["$match"]) =>
          last.result = SelectSeq(Docs, LAMBDA d : Carries(d, last.pipeline[1]["$match"]))

\* count_documents({}) has counted 2 on one soft-deleted and one live document.
C5_Witness ==
    /\ last.op = "count_documents" /\ last.raised = ""
    /\ last.query = <<>>
    /\ OneDeletedOneLive
    /\ last.count = 2

\* The positions of the documents find_many's caller may see: those carrying
\* the query's values, and live unless include_deleted.
Visible ==
    {i \in 1..Len(Docs) :
        Carries(Docs[i], last.query) /\ (last.incl \/ Docs[i].is_deleted = FALSE)}

\* The sort key of a document under the last call's sort, ascending.
SortKey(d) == d[last.sort[1].field] * last.sort[1].dir

\* How many documents are left after the first `skip` of n, cut to `limit`.
PageLen(n, skip, limit) ==
    LET left == IF n > skip THEN n - skip ELSE 0 IN
    IF limit = 0 \/ left < limit THEN left ELSE limit

\* C6 -- find_many pagination: the result is the visible matching documents
\* in sort order (natural order without a sort), the first `skip` dropped and
\* at most `limit` kept; skip = 0 is no offset and limit = 0 is unbounded.
\* The k-th document returned has rank skip + k.  On documents with distinct
\* sort values, skip=3 and limit=4 return the documents ranked 4 to 7.
C6_Pagination ==
    (last.op = "find_many" /\ last.raised = "") =>
        LET R == last.result IN
        /\ Len(R) = PageLen(Cardinality(Visible), last.skip, last.limit)
        /\ \A k \in 1..Len(R) : \E i \in Visible : Docs[i] = R[k]
        /\ \A k, m \in 1..Len(R) : R[k]["_id"] = R[m]["_id"] => k = m
        /\ last.sort = <<>> =>
              \A k \in 1..Len(R) : \E i \in Visible :
                  /\ Docs[i] = R[k]
                  /\ Cardinality({j \in Visible : j < i}) = last.skip + k - 1
        /\ last.sort # <<>> =>
              \A k \in 1..Len(R) :
                  /\ Cardinality({i \in Visible : SortKey(Docs[i]) < SortKey(R[k])}) <= last.skip + k - 1
                  /\ Cardinality({i \in Visible : SortKey(Docs[i]) <= SortKey(R[k])}) >= last.skip + k
        /\ (/\ last.sort # <<>> /\ last.skip = 3 /\ last.limit = 4
            /\ Cardinality(Visible) >= 7
            /\ \A i, j \in Visible : Docs[i].val = Docs[j].val => i = j) =>
              /\ Len(R) = 4
              /\ \A k \in 1..4 :
                    Cardinality({i \in Visible : SortKey(Docs[i]) < SortKey(R[k])}) = 3 + k - 1

\* Ten live documents with the values 1..10 in some other order, sorted
\* ascending, skip=3, limit=4: the documents with the values 4, 5, 6, 7.
C6_Witness ==
    /\ last.op = "find_many" /\ last.raised = ""
    /\ last.sort = <<[field |-> "val", dir |-> 1]>> /\ last.skip = 3 /\ last.limit = 4
    /\ Cardinality(Visible) = 10
    /\ Docs[1].val # 1
    /\ [k \in 1..Len(last.result) |-> last.result[k].val] = <<4, 5, 6, 7>>

\* C7 -- scoped release: leaving the with-block, normally or by an error,
\* closes the connection and leaves self.client and self.db None.
C7_ScopedRelease ==
    (last.op = "__exit__") =>
        /\ client = None
        /\ db = None
        /\ \A h \in 1..Len(handles) : ~handles[h].open
        /\ handles = [h \in 1..Len(last.pre.handles) |->
                         [last.pre.handles[h] EXCEPT !.open = FALSE]]

\* The with-block of a connected client was left by an exception.
C7_Witness ==
    /\ last.op = "__exit__" /\ last.exc
    /\ last.pre.client # None
    /\ last.pre.handles[last.pre.client].open

CrudOps ==
    {"insert_one", "insert_many", "find_one", "find_many", "update_one",
     "delete_one", "delete_many", "aggregate", "count_documents"}

\* C8 as stated -- an operation invoked on a closed client re-establishes the
\* connection (a new handle, probed) before the store is accessed.
C8_ReconnectsBeforeUse ==
    (last.op \in CrudOps /\ last.pre.client = None) =>
        /\ client # None
        /\ Len(handles) = Len(last.pre.handles) + 1
        /\ handles[client].open
        /\ last.raised # "TypeError"

\* C8 as amended -- an operation invoked on a closed client uses no stale or
\* null handle and does not reconnect: it raises TypeError on self.db being
\* None before the store is accessed; the store, self.client, self.db and the
\* handles are as before, and nothing is returned.
C8_FailsWithoutReconnect ==
    (last.op \in CrudOps /\ last.pre.db = None) =>
        /\ last.raised = "TypeError"
        /\ store = last.pre.store
        /\ client = None /\ db = None
        /\ handles = last.pre.handles
        /\ last.result = <<>> /\ last.ids = <<>> /\ last.count = 0

\* insert_one was called after close().
C8_Witness ==
    /\ last.op = "insert_one"
    /\ last.pre.client = None /\ last.pre.db = None
    /\ Len(last.pre.handles) = 1 /\ ~last.pre.handles[1].open
    /\ last.raised = "TypeError"

\* C9 -- no leaked handle: once every thread has left _connect, every handle
\* that is open is the client's current handle.
C9_NoLeakedHandle ==
    (\A t \in Threads : pc[t] \in {"idle", "done", "raised"}) =>
        \A h \in 1..Len(handles) : handles[h].open => h = client

\* C10 -- connect is idempotent: with a handle in place, _connect (called
\* directly or by __enter__) opens no handle, runs no probe and leaves
\* self.client and self.db as they are; at any time the open handles are the
\* current one and no other.
C10_ConnectIdempotent ==
    /\ (last.op \in {"_connect", "__enter__"} /\ last.pre.client # None) =>
          /\ client = last.pre.client
          /\ db = last.pre.db
          /\ handles = last.pre.handles
          /\ last.raised = ""
    /\ last.op \in {"_connect", "__enter__"} =>
          {h \in 1..Len(handles) : handles[h].open} = {client}
    /\ (last.op \in {"_connect", "__enter__"} /\ Len(last.pre.handles) = 1
            /\ last.pre.handles[1].open) => Len(handles) = 1

\* _connect was called on the connected client the constructor left.
C10_Witness ==
    /\ last.op = "_connect"
    /\ last.pre.client = 1
    /\ Len(handles) = 1 /\ handles[1].open
    /\ client = 1

\* C11 as stated -- lazy connection: constructing the client opens no
\* connection; a client that has been constructed and not used yet has no handle.
C11_ConstructOpensNothing ==
    (last.op = "__init__" /\ last.raised = "") =>
        /\ handles = <<>>
        /\ client = None /\ db = None

\* C11 as amended -- the connection is established at construction: when the
\* constructor ends, one handle has been opened, stored in self.client and
\* self.db and probed, and the constructor returns only if the probe
\* succeeded; a constructed client has never opened no handle.
C11_ConstructConnects ==
    /\ (last.op = "__init__") =>
          /\ last.pre.handles = <<>>
          /\ Len(handles) = 1 /\ handles[1].open
          /\ client = 1 /\ db = 1
          /\ (last.raised = "") <=> (handles[1].ping = "ok")
    /\ (last.op # "new") => Len(handles) >= 1

\* The constructor has returned a connected client.
C11_Witness ==
    /\ last.op = "__init__" /\ last.raised = ""
    /\ client = 1 /\ handles = <<[open |-> TRUE, ping |-> "ok"]>>

\* C12 -- the injected filter does not leak: after find_one / find_many the
\* caller's query mapping is as it was passed, so find_one with
\* include_deleted=True on the mapping as the call left it returns what it
\* returns on the mapping as passed (a matching soft-deleted document too).
C12_QueryNotLeaked ==
    (last.op \in {"find_one", "find_many"}) =>
        /\ last.queryAfter = last.query
        /\ (last.raised = "") =>
              find_one(Docs, last.queryAfter, TRUE).result = find_one(Docs, last.query, TRUE).result

\* C13 -- no schema file of the given name: _ensure_validation fails with
\* the file-not-found error and leaves the store as it was: no collection is
\* created, no validator is modified.
C13_MissingSchemaNoEffect ==
    (last.op = "_ensure_validation" /\ last.schema \notin DOMAIN SchemaDir) =>
        /\ last.raised = "FileNotFoundError"
        /\ meta = last.pre.meta
        /\ store = last.pre.store

\* _ensure_validation was called by a connected client with a missing
\* schema, for a collection that does not exist.
C13_Witness ==
    /\ last.op = "_ensure_validation" /\ last.schema = "missing.json"
    /\ last.pre.db # None
    /\ ~last.pre.meta[last.coll].exists
    /\ last.raised = "FileNotFoundError"

\* C14 -- _ensure_validation is idempotent: on a connected client with an
\* existing schema file it raises nothing, also when the collection exists
\* already; afterwards the collection exists with that schema as validator at
\* level "strict" and the other collections are as before; a second call with
\* the same schema changes nothing.
C14_EnsureValidationIdempotent ==
    (last.op = "_ensure_validation" /\ last.schema \in DOMAIN SchemaDir /\ last.pre.db # None) =>
        LET applied == [exists |-> TRUE, validator |-> SchemaDir[last.schema], level |-> "strict"] IN
        /\ last.raised = ""
        /\ meta[last.coll] = applied
        /\ \A c \in MetaCollections \ {last.coll} : meta[c] = last.pre.meta[c]
        /\ (last.pre.meta[last.coll] = applied) => meta = last.pre.meta

\* The second call with the same schema on the same collection.
C14_Witness ==
    /\ last.op = "_ensure_validation" /\ last.raised = ""
    /\ last.schema = "user.json"
    /\ last.pre.meta[last.coll] = [exists |-> TRUE, validator |-> "user-schema", level |-> "strict"]
    /\ meta = last.pre.meta

\* C15 -- close() on a closed client is a no-op: it raises nothing, closes
\* no handle, and handle and database reference stay None; close() on a
\* connected client closes its open handle, that one only, and sets both
\* fields to None.
C15_CloseIdempotent ==
    (last.op = "close") =>
        /\ last.raised = ""
        /\ client = None
        /\ db = None
        /\ (last.pre.client = None) => handles = last.pre.handles
        /\ (last.pre.client # None) =>
              /\ last.pre.handles[last.pre.client].open
              /\ handles = [last.pre.handles EXCEPT ![last.pre.client].open = FALSE]

\* close() was called on a client that had been connected and closed before.
C15_Witness ==
    /\ last.op = "close"
    /\ last.pre.client = None
    /\ Len(last.pre.handles) >= 1
    /\ handles = last.pre.handles

\* C16 -- when the liveness probe fails, _connect raises and the client
\* stays disconnected: handle and database reference are None.
C16_FailedConnectStaysDisconnected ==
    (last.op \in {"_connect", "__enter__"} /\ last.raised = "ConnectionFailure") =>
        /\ client = None
        /\ db = None

\* The positions of the collection whose document the last call changed.
Changed == {i \in 1..Len(PreDocs) : Docs[i] # PreDocs[i]}

\* C17 -- update_one adds no soft-delete filter and merges field by field: no
\* document is added or removed; at most one document changes, one that
\* carried the caller's query, soft-deleted or not; when some document carried
\* the query, one such document has the named fields set afterwards and every
\* other document is as before; fields not named keep their values.
C17_UpdateOneMerges ==
    (last.op = "update_one" /\ last.raised = "") =>
        /\ Len(Docs) = Len(PreDocs)
        /\ Cardinality(Changed) <= 1
        /\ last.count = Cardinality(Changed)
        /\ \A i \in Changed : Carries(PreDocs[i], last.query)
        /\ \A i \in 1..Len(PreDocs) :
              /\ DOMAIN Docs[i] = (DOMAIN PreDocs[i]) \cup (IF i \in Changed THEN DOMAIN last.update ELSE {})
              /\ \A f \in (DOMAIN PreDocs[i]) \ (DOMAIN last.update) : Docs[i][f] = PreDocs[i][f]
        /\ (Len(PreMatching) >= 1) =>
              \E i \in 1..Len(PreDocs) :
                  /\ Carries(PreDocs[i], last.query)
                  /\ \A f \in DOMAIN last.update : Docs[i][f] = last.update[f]
                  /\ \A j \in (1..Len(PreDocs)) \ {i} : Docs[j] = PreDocs[j]
        /\ (Len(PreMatching) = 0) => Docs = PreDocs

\* update_one has renamed a soft-deleted document, found by its natural key,
\* beside another document.
C17_Witness ==
    /\ last.op = "update_one" /\ last.raised = ""
    /\ DOMAIN last.query = {"name"} /\ DOMAIN last.update = {"name"}
    /\ Len(PreDocs) = 2
    /\ \E i \in Changed : PreDocs[i].is_deleted /\ Docs[i].is_deleted /\ Docs[i].name = last.update.name

\* The _ids of the documents that carried the last call's query before it.
PreMatchingIds == {PreDocs[i]["_id"] : i \in {j \in 1..Len(PreDocs) : Carries(PreDocs[j], last.query)}}

\* The _ids of the documents in a result list.
IdsOf(R) == {R[k]["_id"] : k \in 1..Len(R)}

\* C18 -- delete_many, soft: every document that carried the query stays
\* stored with is_deleted = True and its other fields as they were, the other
\* documents are unchanged and the physical count is the same; find_many with
\* the same criteria returns none of them with include_deleted=False and, for
\* criteria they still carry, all of them with include_deleted=True.
\* Hard: every document that carried the query is removed, the others stay.
C18_DeleteManyMarksAll ==
    (last.op = "delete_many" /\ last.raised = "") =>
        IF last.soft
        THEN /\ Len(Docs) = Len(PreDocs)
             /\ \A i \in 1..Len(PreDocs) :
                   IF Carries(PreDocs[i], last.query)
                   THEN Docs[i] = [f \in DOMAIN PreDocs[i] |->
                                      IF f = "is_deleted" THEN TRUE ELSE PreDocs[i][f]]
                   ELSE Docs[i] = PreDocs[i]
             /\ IdsOf(find_many(Docs, last.query, FALSE, <<>>, 0, 0).result) \cap PreMatchingIds = {}
             /\ ("is_deleted" \notin DOMAIN last.query) =>
                   IdsOf(find_many(Docs, last.query, TRUE, <<>>, 0, 0).result) = PreMatchingIds
        ELSE /\ Docs = SelectSeq(PreDocs, LAMBDA d : ~Carries(d, last.query))
             /\ IdsOf(Docs) \cap PreMatchingIds = {}

\* delete_many(soft) has marked two matching documents, one of them live.
C18_Witness ==
    /\ last.op = "delete_many" /\ last.raised = "" /\ last.soft
    /\ Cardinality(PreMatchingIds) = 2
    /\ \E i \in 1..Len(PreDocs) : ~PreDocs[i].is_deleted
    /\ last.count >= 1
    /\ \A i \in 1..Len(Docs) : Docs[i].is_deleted

\* How many live documents of D carry the last call's query.
LiveMatching(D) == Cardinality({i \in 1..Len(D) : Carries(D[i], last.query) /\ ~D[i].is_deleted})

\* C19 -- a soft delete_one always removes a visible document when one
\* matches: whenever a live document carries the query, afterwards exactly one
\* live document fewer carries it, also when a soft-deleted document carries
\* the query too.
C19_SoftDeleteRemovesVisible ==
    (/\ last.op = "delete_one" /\ last.raised = "" /\ last.soft
     /\ "is_deleted" \notin DOMAIN last.query
     /\ LiveMatching(PreDocs) >= 1) =>
        LiveMatching(Docs) = LiveMatching(PreDocs) - 1

====
